---- MODULE Spec2Model ----
(***************************************************************************)
(* Flood-alert evaluation engine of rainalert.                             *)
(*                                                                         *)
(*   app/api/evaluate-alert/route.js  (src/unnamed/part_000, lines 76-214) *)
(*   app/api/flood/route.js           (src/app/api/flood/route.js)         *)
(*                                                                         *)
(* Distances are integers in units of 1/10000 cm (76.2 cm = 762000), so    *)
(* that 76.2001 cm and the effect of toFixed(2) are representable.  Time   *)
(* is in whole seconds.  The two MySQL tables are sequences in insertion   *)
(* order; the auto-increment id of a row is its position.                  *)
(***************************************************************************)
EXTENDS Integers, Sequences, FiniteSets

VARIABLES
    readings,             \* table sensor_readings
    alerts,               \* table flood_alerts
    firstSafeDetectedAt,  \* module-level variable of evaluate-alert/route.js
    now,                  \* wall clock (new Date(), NOW(), CURRENT_TIMESTAMP)
    response,             \* the response returned by the last request
    streakStart,          \* history: first safe evaluation since the last adverse one
    scenario,             \* history: progress of the evaluation sequence of ScenarioSteps
    evals,                \* the invocations of evaluate-alert that run step by step
    alertForm,            \* state of the AlertForm component
    connectedClients,     \* socketServer.js: the Set of client ids
    serverSockets,        \* socketServer.js: the sockets Socket.IO has handed to io.on
    socket,               \* client socket module: its module-level variable
    instances             \* client socket module: the sockets io() has created

\* The variables of the socket server and of the client socket module.
socketVars == <<connectedClients, serverSockets, socket, instances>>

vars == <<readings, alerts, firstSafeDetectedAt, now, response, streakStart, scenario,
          evals, alertForm, socketVars>>

-----------------------------------------------------------------------------
(* Bounds *)

MaxReadings == 3

\* The readings stored under SpecRead.
MaxReadReadings == 2

\* The instants at which a request can arrive.
TimePoints == {0, 100, 150, 299, 450}

\* The instants of the runs with storage failures.
FailTimePoints == {0, 450}

\* The request times under SpecRead.
ReadTimePoints == {0, 450}

\* The invocations of evaluate-alert that can overlap, and the readings stored,
\* under SpecConc.
MaxInvocations == 3

MaxConcReadings == 2

\* The connections the socket server accepts, and the sockets the client module
\* creates.
MaxSockets == 3

MaxInstances == 3

\* The instants of the steps under SpecConc.
ConcTimePoints == {0, 450}

-----------------------------------------------------------------------------
(* Program constants *)

\* null: firstSafeDetectedAt = null, and a NULL column of a row
Null == -1

SafeThreshold == 762000
WarningThreshold == 609600
CriticalThreshold == 304800
GracePeriod == 300
MaxActive == 2

\* toFixed(2) keeps hundredths of a cm: 100 units of 1/10000 cm
Cent == 100

\* Date arithmetic is in milliseconds
Millis == 1000

\* CM_TO_FEET_FACTOR = 1 / 30.48: the hundredths of a cm in a foot
CmPerFoot == 3048

-----------------------------------------------------------------------------
(* Request bodies of POST /api/flood *)

Num(n) == [type |-> "number", val |-> n]
Str(s) == [type |-> "string", val |-> s]

Body(d, f, s) == [json |-> TRUE, distance |-> d, floodLevel |-> f, status |-> s]

Malformed == [json |-> FALSE]

ValidBodies ==
    { Body(Num(900000), Num(0), Str("SAFE")),
      Body(Num(700000), Num(200000), Str("WARNING")) }

InvalidBodies ==
    { Malformed,
      Body(Str("70"), Num(200000), Str("WARNING")),
      Body(Num(700000), Str("20"), Str("WARNING")),
      Body(Num(700000), Num(200000), Num(1)) }

Bodies == ValidBodies \cup InvalidBodies

\* A safe and an adverse distance under a tag that raises no alert at the POST, so
\* that every alert under SpecConc is one the evaluation inserted.
ConcBodies ==
    { Body(Num(900000), Num(0), Str("SAFE")),
      Body(Num(700000), Num(200000), Str("SAFE")) }

\* Distances at and around the three thresholds, in 1/10000 cm
ClassifyDistances ==
    { 0, 250000, 304700, 304799, 304800, 304801, 304849, 304851, 304900, 305000,
      500000, 609500, 609599, 609600, 609601, 609649, 609651, 609700, 700000,
      761900, 761999, 762000, 762001, 762049, 762051, 762100, 900000 }

ClassifyBodies ==
    { Body(Num(d), Num(0), Str(tag)) : d \in ClassifyDistances,
                                      tag \in {"SAFE", "Danger", "WARNING", "critical"} }

\* String.prototype.toUpperCase / toLowerCase on the status tags in use
ToUpperCase(s) ==
    CASE s \in {"SAFE", "safe", "Safe"} -> "SAFE"
      [] s \in {"WARNING", "warning", "Warning"} -> "WARNING"
      [] s \in {"DANGER", "danger", "Danger"} -> "DANGER"
      [] s \in {"CRITICAL", "critical", "Critical"} -> "CRITICAL"
      [] OTHER -> s

ToLowerCase(s) ==
    CASE s \in {"SAFE", "safe", "Safe"} -> "safe"
      [] s \in {"WARNING", "warning", "Warning"} -> "warning"
      [] s \in {"DANGER", "danger", "Danger"} -> "danger"
      [] s \in {"CRITICAL", "critical", "Critical"} -> "critical"
      [] OTHER -> s

-----------------------------------------------------------------------------
(* Responses *)

NoResponse ==
    [op |-> "none", http |-> 0, success |-> FALSE, outcome |-> "none",
     reading |-> 0, level |-> "", remaining |-> Null]

EvalResponse(ok, outcome, rid, level, remaining) ==
    [op |-> "evaluate", http |-> 200, success |-> ok, outcome |-> outcome,
     reading |-> rid, level |-> level, remaining |-> remaining]

IngestResponse(http, ok, outcome, rid) ==
    [op |-> "ingest", http |-> http, success |-> ok, outcome |-> outcome,
     reading |-> rid, level |-> "", remaining |-> Null]

-----------------------------------------------------------------------------
(* Alert store *)

Ids(tbl) == 1..Len(tbl)

ActiveIds(tbl) == {i \in Ids(tbl) : tbl[i].status = "active"}

\* Faulty variant: the rows are deleted instead of marked.
MarkAllPast_Delete(tbl) == SelectSeq(tbl, LAMBDA a : a.status # "active")

\* UPDATE flood_alerts SET status = 'past' WHERE status = 'active'
MarkAllPast(tbl) ==
    [i \in Ids(tbl) |->
        IF tbl[i].status = "active" THEN [tbl[i] EXCEPT !.status = "past"] ELSE tbl[i]]

\* UPDATE flood_alerts SET status = 'past' WHERE status = 'active' AND id NOT IN (keep)
MarkPastExcept(tbl, keep) ==
    [i \in Ids(tbl) |->
        IF tbl[i].status = "active" /\ i \notin keep
        THEN [tbl[i] EXCEPT !.status = "past"] ELSE tbl[i]]

\* Faulty variant: ORDER BY created_at ASC, the two oldest are kept.
KeepChoices_Oldest(tbl) ==
    {K \in SUBSET ActiveIds(tbl) :
        /\ Cardinality(K) = 2
        /\ \A k \in K : \A o \in ActiveIds(tbl) \ K :
              tbl[k].created_at <= tbl[o].created_at}

\* SELECT id ... WHERE status = 'active' ORDER BY created_at DESC, then slice(0, 2):
\* the sets of ids the first two rows can be (rows with equal created_at come in
\* any order).
KeepChoices(tbl) ==
    {K \in SUBSET ActiveIds(tbl) :
        /\ Cardinality(K) = MaxActive
        /\ \A k \in K : \A o \in ActiveIds(tbl) \ K :
              tbl[k].created_at >= tbl[o].created_at}

\* Faulty variant: the reading's time is compared with the alert's created_at.
ExistingAlert_CreatedAt(tbl, rt, level) ==
    {i \in 1..Len(tbl) : tbl[i].created_at = rt /\ tbl[i].alert_level = level}

\* SELECT * FROM flood_alerts WHERE reading_time = ? AND alert_level = ?
\* (a NULL reading_time equals nothing)
ExistingAlert(tbl, rt, level) ==
    {i \in Ids(tbl) :
        /\ tbl[i].reading_time # Null
        /\ tbl[i].reading_time = rt
        /\ tbl[i].alert_level = level}

-----------------------------------------------------------------------------
(* Readings *)

\* SELECT * FROM sensor_readings ORDER BY reading_time DESC LIMIT 1: the rows the
\* query can return (rows with equal reading_time come in any order).
LatestReadings ==
    {i \in Ids(readings) :
        \A j \in Ids(readings) : readings[i].reading_time >= readings[j].reading_time}

-----------------------------------------------------------------------------
(* Severity *)

\* latestSensorData.distance > 76.2
IsSafe(d) == d > SafeThreshold

\* parseFloat(distance.toFixed(2)): to the nearest hundredth of a cm
ToFixed2(d) == ((d + (Cent \div 2)) \div Cent) * Cent

\* The if/else-if chain of the engine on the rounded distance; "" is its else branch.
AlertLevel(d) ==
    LET distance == ToFixed2(d) IN
    IF distance > WarningThreshold /\ distance <= SafeThreshold THEN "Warning"
    ELSE IF distance > CriticalThreshold /\ distance <= WarningThreshold THEN "Danger"
    ELSE IF distance <= CriticalThreshold THEN "Critical"
    ELSE ""

\* `${alertLevel} flood level detected.`
EngineMessage(level) ==
    CASE level = "Warning" -> "Warning flood level detected."
      [] level = "Danger" -> "Danger flood level detected."
      [] level = "Critical" -> "Critical flood level detected."
      [] OTHER -> " flood level detected."

\* The message the ingest handler picks for an adverse status tag
IngestMessage(tag) ==
    CASE ToUpperCase(tag) = "WARNING" -> "Warning: Rising Water Level."
      [] ToUpperCase(tag) = "DANGER" -> "Danger: High Water Level!"
      [] ToUpperCase(tag) = "CRITICAL" -> "Critical Flood Level! Immediate action required."
      [] OTHER -> ""

\* Faulty variant: the tag is compared without toUpperCase().
IsAdverseTag_CaseSensitive(tag) == tag \in {"WARNING", "DANGER", "CRITICAL"}

\* status.toUpperCase() === "WARNING" || ... "DANGER" || ... "CRITICAL"
IsAdverseTag(tag) == ToUpperCase(tag) \in {"WARNING", "DANGER", "CRITICAL"}

\* Faulty variant: the difference is left in milliseconds.
ElapsedTime_Millis(t, since) == (t - since) * 1000

\* (now - new Date(firstSafeDetectedAt)) / 1000: milliseconds to seconds
ElapsedTime(t, since) == ((t - since) * Millis) \div Millis

\* Faulty variant: the grace period is taken as 5 (minutes) of elapsed seconds.
GraceElapsed_Minutes(elapsed) == elapsed >= 5

\* Faulty variant: elapsedTime > 300
GraceElapsed_Strict(elapsed) == elapsed > 300

\* elapsedTime >= 300
GraceElapsed(elapsed) == elapsed >= GracePeriod

\* Faulty variant: an adverse reading leaves the timer running.
TimerAfterAdverse_Keep(timer) == timer

\* Line 135, the else of the safe test: firstSafeDetectedAt = null
TimerAfterAdverse(timer) == Null

-----------------------------------------------------------------------------
(* History of the evaluations *)

\* The evaluation sequence "safe at t0, adverse at t0+100, safe at t0+150, safe at
\* t0+450", with t0 = 0.
ScenarioSteps ==
    << [t |-> 0, safe |-> TRUE], [t |-> 100, safe |-> FALSE],
       [t |-> 150, safe |-> TRUE], [t |-> 450, safe |-> TRUE] >>

\* scenario = k: the evaluations so far are exactly the first k of ScenarioSteps;
\* Null: they are not a prefix of it.
ScenarioAfter(sc, t, safe) ==
    IF sc # Null /\ sc < Len(ScenarioSteps) /\ ScenarioSteps[sc + 1] = [t |-> t, safe |-> safe]
    THEN sc + 1 ELSE Null

-----------------------------------------------------------------------------
(* POST /api/evaluate-alert *)

EvalFailPoints == {"none", "latest", "clear", "duplicate", "insert", "active", "evict"}

\* Faulty variant: reading_time is left out of the INSERT, as the ingest handler does.
EngineAlert_NoReadingTime(r, level) ==
    [alert_level |-> level, message |-> EngineMessage(level), status |-> "active",
     distance |-> r.distance, flood_level |-> r.flood_level,
     reading_time |-> Null, created_at |-> now]

EngineAlert(r, level) ==
    [alert_level |-> level, message |-> EngineMessage(level), status |-> "active",
     distance |-> r.distance, flood_level |-> r.flood_level,
     reading_time |-> r.reading_time, created_at |-> now]

\* Lines 99-133: the latest reading is above 76.2 cm.
SafeBranch(rid, fail) ==
    /\ streakStart' = IF streakStart = Null THEN now ELSE streakStart
    /\ scenario' = ScenarioAfter(scenario, now, TRUE)
    /\ IF firstSafeDetectedAt = Null
       THEN /\ firstSafeDetectedAt' = now
            /\ response' = EvalResponse(TRUE, "AwaitingConfirmation", rid, "", Null)
            /\ UNCHANGED alerts
       ELSE LET elapsedTime == ElapsedTime(now, firstSafeDetectedAt) IN
            IF GraceElapsed(elapsedTime)
            THEN IF fail = "clear"
                 THEN /\ response' = EvalResponse(FALSE, "Error", rid, "", Null)
                      /\ UNCHANGED <<alerts, firstSafeDetectedAt>>
                 ELSE /\ alerts' = MarkAllPast(alerts)
                      /\ firstSafeDetectedAt' = Null
                      /\ response' = EvalResponse(TRUE, "AllAlertsCleared", rid, "", Null)
            ELSE /\ response' = EvalResponse(TRUE, "AwaitingConfirmation", rid, "",
                                             GracePeriod - elapsedTime)
                 /\ UNCHANGED <<alerts, firstSafeDetectedAt>>

\* Lines 134-206: the latest reading is at or below 76.2 cm.
AdverseBranch(rid, fail) ==
    LET r == readings[rid]
        alertLevel == AlertLevel(r.distance)
        inserted == Append(alerts, EngineAlert(r, alertLevel))
    IN
    /\ streakStart' = Null
    /\ scenario' = ScenarioAfter(scenario, now, FALSE)
    /\ firstSafeDetectedAt' = TimerAfterAdverse(firstSafeDetectedAt)
    /\ IF alertLevel = ""
       THEN /\ response' = EvalResponse(TRUE, "NoAlert", rid, "", Null)
            /\ UNCHANGED alerts
       ELSE IF fail = "duplicate"
       THEN /\ response' = EvalResponse(FALSE, "Error", rid, alertLevel, Null)
            /\ UNCHANGED alerts
       ELSE IF ExistingAlert(alerts, r.reading_time, alertLevel) # {}
       THEN /\ response' = EvalResponse(TRUE, "DuplicateSkipped", rid, alertLevel, Null)
            /\ UNCHANGED alerts
       ELSE IF fail = "insert"
       THEN /\ response' = EvalResponse(FALSE, "Error", rid, alertLevel, Null)
            /\ UNCHANGED alerts
       ELSE IF fail = "active"
       THEN /\ response' = EvalResponse(FALSE, "Error", rid, alertLevel, Null)
            /\ alerts' = inserted
       ELSE IF Cardinality(ActiveIds(inserted)) > MaxActive
       THEN IF fail = "evict"
            THEN /\ response' = EvalResponse(FALSE, "Error", rid, alertLevel, Null)
                 /\ alerts' = inserted
            ELSE /\ response' = EvalResponse(TRUE, "AlertRecordedEvicted", rid, alertLevel, Null)
                 /\ \E idsToKeep \in KeepChoices(inserted) :
                        alerts' = MarkPastExcept(inserted, idsToKeep)
       ELSE /\ response' = EvalResponse(TRUE, "AlertRecorded", rid, alertLevel, Null)
            /\ alerts' = inserted

\* Faulty variant: no catch block, a query that throws leaves the caller without
\* a response.
Evaluate_Uncaught(fail) ==
    /\ UNCHANGED <<readings, now, evals, alertForm, socketVars>>
    /\ IF fail # "none"
       THEN /\ response' = NoResponse
            /\ UNCHANGED <<alerts, firstSafeDetectedAt, streakStart, scenario>>
       ELSE IF Len(readings) = 0
       THEN /\ response' = EvalResponse(FALSE, "NoData", 0, "", Null)
            /\ UNCHANGED <<alerts, firstSafeDetectedAt, streakStart, scenario>>
       ELSE \E rid \in LatestReadings :
                IF IsSafe(readings[rid].distance)
                THEN SafeBranch(rid, fail)
                ELSE AdverseBranch(rid, fail)

\* Faulty variant: with no reading stored the handler starts the grace period.
Evaluate_StartsTimerOnEmpty(fail) ==
    /\ UNCHANGED <<readings, now, evals, alertForm, socketVars>>
    /\ IF fail = "latest"
       THEN /\ response' = EvalResponse(FALSE, "Error", 0, "", Null)
            /\ UNCHANGED <<alerts, firstSafeDetectedAt, streakStart, scenario>>
       ELSE IF Len(readings) = 0
       THEN /\ response' = EvalResponse(FALSE, "NoData", 0, "", Null)
            /\ firstSafeDetectedAt' = now
            /\ UNCHANGED <<alerts, streakStart, scenario>>
       ELSE \E rid \in LatestReadings :
                IF IsSafe(readings[rid].distance)
                THEN SafeBranch(rid, fail)
                ELSE AdverseBranch(rid, fail)

\* The handler; fail names the query that throws, if it is reached.
Evaluate(fail) ==
    /\ UNCHANGED <<readings, now, evals, alertForm, socketVars>>
    /\ IF fail = "latest"
       THEN /\ response' = EvalResponse(FALSE, "Error", 0, "", Null)
            /\ UNCHANGED <<alerts, firstSafeDetectedAt, streakStart, scenario>>
       ELSE IF Len(readings) = 0
       THEN /\ response' = EvalResponse(FALSE, "NoData", 0, "", Null)
            /\ UNCHANGED <<alerts, firstSafeDetectedAt, streakStart, scenario>>
       ELSE \E rid \in LatestReadings :
                IF IsSafe(readings[rid].distance)
                THEN SafeBranch(rid, fail)
                ELSE AdverseBranch(rid, fail)

-----------------------------------------------------------------------------
(* POST /api/flood *)

IngestFailPoints == {"none", "connect", "reading", "alert"}

\* Faulty variant: the type of floodLevel is not checked.
InvalidFields_NoFloodLevel(body) ==
    \/ body.distance.type # "number"
    \/ body.status.type # "string"

\* typeof distance !== "number" || typeof floodLevel !== "number" || typeof status !== "string"
InvalidFields(body) ==
    \/ body.distance.type # "number"
    \/ body.floodLevel.type # "number"
    \/ body.status.type # "string"

\* The row of sensor_readings; reading_time is the column's default, the insert time.
ReadingRow(body) ==
    [distance |-> body.distance.val, flood_level |-> body.floodLevel.val,
     status |-> body.status.val, reading_time |-> now]

\* The row of flood_alerts the ingest handler inserts: level, message, status and
\* the two timestamps only.
IngestAlert(tag) ==
    [alert_level |-> ToLowerCase(tag), message |-> IngestMessage(tag), status |-> "active",
     distance |-> Null, flood_level |-> Null, reading_time |-> Null, created_at |-> now]

Ingest(body, fail) ==
    /\ Len(readings) < MaxReadings
    /\ UNCHANGED <<firstSafeDetectedAt, now, streakStart, scenario, evals, alertForm, socketVars>>
    /\ IF ~body.json
       THEN /\ response' = IngestResponse(400, FALSE, "InvalidJson", 0)
            /\ UNCHANGED <<readings, alerts>>
       ELSE IF InvalidFields(body)
       THEN /\ response' = IngestResponse(400, FALSE, "InvalidData", 0)
            /\ UNCHANGED <<readings, alerts>>
       ELSE IF fail \in {"connect", "reading"}
       THEN /\ response' = IngestResponse(500, FALSE, "Error", 0)
            /\ UNCHANGED <<readings, alerts>>
       ELSE /\ readings' = Append(readings, ReadingRow(body))
            /\ IF IsAdverseTag(body.status.val)
               THEN IF fail = "alert"
                    THEN /\ response' = IngestResponse(500, FALSE, "Error", 0)
                         /\ UNCHANGED alerts
                    ELSE /\ alerts' = Append(alerts, IngestAlert(body.status.val))
                         /\ response' = IngestResponse(200, TRUE, "Stored", Len(readings) + 1)
               ELSE /\ response' = IngestResponse(200, TRUE, "Stored", Len(readings) + 1)
                    /\ UNCHANGED alerts

-----------------------------------------------------------------------------
(* GET /api/current-sensor-data *)

\* The answer of a read request: the fields of a response and the data it carries.
ReadResponse(op, http, ok, outcome, data) ==
    [op |-> op, http |-> http, success |-> ok, outcome |-> outcome,
     reading |-> 0, level |-> "", remaining |-> Null, data |-> data]

\* parseFloat((x * CM_TO_FEET_FACTOR).toFixed(2)): from 1/10000 cm to the nearest
\* 1/100 ft
ToFeet(x) == (2 * x + CmPerFoot) \div (2 * CmPerFoot)

\* The record standing for rows[0] when the query returns no row.
NoData ==
    [distance |-> Null, flood_level |-> Null, status |-> "No Data", reading_time |-> Null]

\* Faulty variant: the first stored row instead of the latest.
LatestData_First(i) ==
    [distance |-> ToFeet(readings[1].distance),
     flood_level |-> ToFeet(readings[1].flood_level),
     status |-> readings[1].status, reading_time |-> readings[1].reading_time]

\* The selected row, its distance and flood_level converted to feet.
LatestData(i) ==
    [distance |-> ToFeet(readings[i].distance),
     flood_level |-> ToFeet(readings[i].flood_level),
     status |-> readings[i].status, reading_time |-> readings[i].reading_time]

SensorDataFailPoints == {"none", "connect", "query"}

GetCurrentSensorData(fail) ==
    /\ UNCHANGED <<readings, alerts, firstSafeDetectedAt, now, streakStart, scenario,
                   evals, alertForm, socketVars>>
    /\ IF fail # "none"
       THEN response' = ReadResponse("current-sensor-data", 500, FALSE, "Error", Null)
       ELSE IF Len(readings) = 0
       THEN response' = ReadResponse("current-sensor-data", 200, TRUE, "Retrieved", NoData)
       ELSE \E i \in LatestReadings :
                response' = ReadResponse("current-sensor-data", 200, TRUE, "Retrieved",
                                         LatestData(i))

-----------------------------------------------------------------------------
(* GET /api/flood_alerts *)

\* The values of the since parameter: absent, or a timestamp.
SinceValues == {Null} \cup ReadTimePoints

\* Faulty variant: created_at >= ?
Newer_Inclusive(created_at, since) == created_at >= since

\* WHERE created_at > ?
Newer(created_at, since) == created_at > since

\* The ids of the rows the query selects; without since, every row.
SelectedAlerts(since) ==
    IF since = Null
    THEN Ids(alerts)
    ELSE {i \in Ids(alerts) : Newer(alerts[i].created_at, since)}

\* ORDER BY created_at DESC: the orders the rows of S can come in (rows with
\* equal created_at come in any order).
RECURSIVE OrderByCreatedAtDesc(_)
OrderByCreatedAtDesc(S) ==
    IF S = {}
    THEN {<<>>}
    ELSE UNION { {<<i>> \o rest : rest \in OrderByCreatedAtDesc(S \ {i})} :
                 i \in {k \in S : \A j \in S : alerts[k].created_at >= alerts[j].created_at} }

\* The handler; data holds the ids of the returned rows, in their order.
GetFloodAlerts(since, fail) ==
    /\ UNCHANGED <<readings, alerts, firstSafeDetectedAt, now, streakStart, scenario,
                   evals, alertForm, socketVars>>
    /\ IF fail
       THEN response' = ReadResponse("flood_alerts", 500, FALSE, "Error", Null)
       ELSE \E rows \in OrderByCreatedAtDesc(SelectedAlerts(since)) :
                response' = ReadResponse("flood_alerts", 200, TRUE, "Listed", rows)

-----------------------------------------------------------------------------
(* AlertForm: handleSend *)

\* predefinedMessages: the levels of the three messages.
PredefinedLevels == {"Critical Alert", "Danger", "Warning"}

\* No request to the push service is pending.
NoPost == [level |-> "", time |-> Null]

\* The useState initial values; posted is the body of the pending axios.post.
AlertFormInit ==
    [selectedMessage |-> "Critical Alert", sending |-> FALSE, success |-> "",
     error |-> "", posted |-> NoPost]

\* Faulty variant: the rejection is not caught, no message is set.
SendFailed_Uncaught(form) ==
    [form EXCEPT !.sending = FALSE, !.posted = NoPost]

\* catch: setError("Failed to send alert."); finally: setSending(false)
SendFailed(form) ==
    [form EXCEPT !.error = "Failed to send alert.", !.sending = FALSE, !.posted = NoPost]

\* setSuccess, setSelectedMessage(predefinedMessages[0]); finally: setSending(false)
SendSucceeded(form) ==
    [form EXCEPT !.success = "Alert sent successfully!",
                 !.selectedMessage = "Critical Alert", !.sending = FALSE,
                 !.posted = NoPost]

\* onChange of the select
SelectMessage(level) ==
    /\ alertForm.selectedMessage # level
    /\ alertForm' = [alertForm EXCEPT !.selectedMessage = level]
    /\ UNCHANGED <<readings, alerts, firstSafeDetectedAt, now, response, streakStart,
                   scenario, evals, socketVars>>

\* handleSend up to the await: the submit button is disabled while sending.
HandleSend ==
    /\ ~alertForm.sending
    /\ alertForm' = [alertForm EXCEPT
                        !.sending = TRUE, !.success = "", !.error = "",
                        !.posted = [level |-> alertForm.selectedMessage, time |-> now]]
    /\ UNCHANGED <<readings, alerts, firstSafeDetectedAt, now, response, streakStart,
                   scenario, evals, socketVars>>

\* The axios.post settles: it resolves (ok) or rejects.
SendSettles(ok) ==
    /\ alertForm.sending
    /\ alertForm' = IF ok THEN SendSucceeded(alertForm) ELSE SendFailed(alertForm)
    /\ UNCHANGED <<readings, alerts, firstSafeDetectedAt, now, response, streakStart,
                   scenario, evals, socketVars>>

-----------------------------------------------------------------------------
(* POST /api/evaluate-alert, one step per await *)

Invocations == 1..MaxInvocations

\* An invocation that has not arrived. rid, level, existing and idsToKeep are the
\* handler's latestSensorData, alertLevel, existingAlert.length > 0 and idsToKeep;
\* startedTimer and overlap are history: whether it set firstSafeDetectedAt, and
\* the invocations in progress when it arrived.
Idle ==
    [pc |-> "idle", rid |-> 0, level |-> "", existing |-> FALSE, idsToKeep |-> {},
     startedTimer |-> FALSE, overlap |-> {}]

InFlight == {q \in Invocations : evals[q].pc \notin {"idle", "done"}}

\* The handler has returned: its locals are gone.
Done(e) == [Idle EXCEPT !.pc = "done", !.startedTimer = e.startedTimer,
                        !.overlap = e.overlap]

\* Lines 82-87: the request arrives and the latest reading is selected. The
\* invocations arrive in the order of their numbers.
Begin(p) ==
    /\ evals[p].pc = "idle"
    /\ \A q \in Invocations : q < p => evals[q].pc # "idle"
    /\ \E rid \in (IF Len(readings) = 0 THEN {0} ELSE LatestReadings) :
           evals' = [evals EXCEPT ![p] = [@ EXCEPT !.pc = "afterLatest", !.rid = rid,
                                                  !.overlap = InFlight]]
    /\ UNCHANGED <<readings, alerts, firstSafeDetectedAt, now, response, streakStart,
                   scenario, alertForm, socketVars>>

\* Lines 89-160: from the rows of the first query to the next await (the bulk
\* UPDATE or the duplicate check) or to a response.
AfterLatest(p) ==
    LET e == evals[p]
        r == readings[e.rid]
    IN
    /\ e.pc = "afterLatest"
    /\ UNCHANGED <<readings, now, streakStart, scenario, alertForm, socketVars>>
    /\ IF e.rid = 0
       THEN /\ evals' = [evals EXCEPT ![p] = Done(e)]
            /\ response' = EvalResponse(FALSE, "NoData", 0, "", Null)
            /\ UNCHANGED <<alerts, firstSafeDetectedAt>>
       ELSE IF IsSafe(r.distance)
       THEN IF firstSafeDetectedAt = Null
            THEN /\ firstSafeDetectedAt' = now
                 /\ evals' = [evals EXCEPT ![p] = [Done(e) EXCEPT !.startedTimer = TRUE]]
                 /\ response' = EvalResponse(TRUE, "AwaitingConfirmation", e.rid, "", Null)
                 /\ UNCHANGED alerts
            ELSE LET elapsedTime == ElapsedTime(now, firstSafeDetectedAt) IN
                 IF GraceElapsed(elapsedTime)
                 THEN /\ alerts' = MarkAllPast(alerts)
                      /\ evals' = [evals EXCEPT ![p] = [e EXCEPT !.pc = "afterClear"]]
                      /\ UNCHANGED <<firstSafeDetectedAt, response>>
                 ELSE /\ evals' = [evals EXCEPT ![p] = Done(e)]
                      /\ response' = EvalResponse(TRUE, "AwaitingConfirmation", e.rid, "",
                                                  GracePeriod - elapsedTime)
                      /\ UNCHANGED <<alerts, firstSafeDetectedAt>>
       ELSE LET alertLevel == AlertLevel(r.distance) IN
            /\ firstSafeDetectedAt' = TimerAfterAdverse(firstSafeDetectedAt)
            /\ UNCHANGED alerts
            /\ IF alertLevel = ""
               THEN /\ evals' = [evals EXCEPT ![p] = Done(e)]
                    /\ response' = EvalResponse(TRUE, "NoAlert", e.rid, "", Null)
               ELSE /\ evals' = [evals EXCEPT
                                    ![p] = [e EXCEPT
                                               !.pc = "afterDuplicate",
                                               !.level = alertLevel,
                                               !.existing =
                                                   ExistingAlert(alerts, r.reading_time,
                                                                 alertLevel) # {}]]
                    /\ UNCHANGED response

\* Lines 119-125: after the bulk UPDATE.
AfterClear(p) ==
    /\ evals[p].pc = "afterClear"
    /\ firstSafeDetectedAt' = Null
    /\ evals' = [evals EXCEPT ![p] = Done(evals[p])]
    /\ response' = EvalResponse(TRUE, "AllAlertsCleared", evals[p].rid, "", Null)
    /\ UNCHANGED <<readings, alerts, now, streakStart, scenario, alertForm, socketVars>>

\* Lines 163-182: after the duplicate check, to the INSERT.
AfterDuplicate(p) ==
    LET e == evals[p] IN
    /\ e.pc = "afterDuplicate"
    /\ UNCHANGED <<readings, firstSafeDetectedAt, now, streakStart, scenario, alertForm, socketVars>>
    /\ IF e.existing
       THEN /\ evals' = [evals EXCEPT ![p] = Done(e)]
            /\ response' = EvalResponse(TRUE, "DuplicateSkipped", e.rid, e.level, Null)
            /\ UNCHANGED alerts
       ELSE /\ alerts' = Append(alerts, EngineAlert(readings[e.rid], e.level))
            /\ evals' = [evals EXCEPT ![p] = [e EXCEPT !.pc = "afterInsert"]]
            /\ UNCHANGED response

\* Lines 185-190: after the INSERT, the SELECT of the active alerts and the
\* slice of its first two rows.
AfterInsert(p) ==
    LET e == evals[p] IN
    /\ e.pc = "afterInsert"
    /\ UNCHANGED <<readings, alerts, firstSafeDetectedAt, now, response, streakStart,
                   scenario, alertForm, socketVars>>
    /\ IF Cardinality(ActiveIds(alerts)) > MaxActive
       THEN \E idsToKeep \in KeepChoices(alerts) :
                evals' = [evals EXCEPT ![p] = [e EXCEPT !.pc = "afterActive",
                                                        !.idsToKeep = idsToKeep]]
       ELSE evals' = [evals EXCEPT ![p] = [e EXCEPT !.pc = "afterActive"]]

\* Lines 189-206: after the SELECT of the active alerts, the eviction UPDATE or
\* the response.
AfterActive(p) ==
    LET e == evals[p] IN
    /\ e.pc = "afterActive"
    /\ UNCHANGED <<readings, firstSafeDetectedAt, now, streakStart, scenario, alertForm, socketVars>>
    /\ IF e.idsToKeep # {}
       THEN /\ alerts' = MarkPastExcept(alerts, e.idsToKeep)
            /\ evals' = [evals EXCEPT ![p] = [e EXCEPT !.pc = "afterEvict"]]
            /\ UNCHANGED response
       ELSE /\ evals' = [evals EXCEPT ![p] = Done(e)]
            /\ response' = EvalResponse(TRUE, "AlertRecorded", e.rid, e.level, Null)
            /\ UNCHANGED alerts

\* Lines 197-200: after the eviction UPDATE.
AfterEvict(p) ==
    /\ evals[p].pc = "afterEvict"
    /\ evals' = [evals EXCEPT ![p] = Done(evals[p])]
    /\ response' = EvalResponse(TRUE, "AlertRecordedEvicted", evals[p].rid,
                                evals[p].level, Null)
    /\ UNCHANGED <<readings, alerts, firstSafeDetectedAt, now, streakStart, scenario,
                   alertForm, socketVars>>

-----------------------------------------------------------------------------
(* socketServer.js *)

SocketIds == 1..MaxSockets

\* connectedClients.add(socket.id)
AfterConnection(clients, id) == clients \cup {id}

\* Faulty variant: the disconnect handler leaves the id in the set.
AfterDisconnect_Keep(clients, id) == clients

\* connectedClients.delete(socket.id)
AfterDisconnect(clients, id) == clients \ {id}

\* The answer of an endpoint of the socket server; data is connectedClients.size.
ServerResponse(op, http, ok, size) ==
    [op |-> op, http |-> http, success |-> ok, outcome |-> "",
     reading |-> 0, level |-> "", remaining |-> Null, data |-> size]

\* io.on("connection"): Socket.IO hands over a socket with an id it has not used
\* before.
Connection(id) ==
    /\ id \notin serverSockets.used
    /\ serverSockets' = [live |-> serverSockets.live \cup {id},
                         used |-> serverSockets.used \cup {id}]
    /\ connectedClients' = AfterConnection(connectedClients, id)
    /\ UNCHANGED <<readings, alerts, firstSafeDetectedAt, now, response, streakStart,
                   scenario, evals, alertForm, socket, instances>>

\* socket.on("disconnect"): fired once for a socket that was connected.
Disconnect(id) ==
    /\ id \in serverSockets.live
    /\ serverSockets' = [serverSockets EXCEPT !.live = @ \ {id}]
    /\ connectedClients' = AfterDisconnect(connectedClients, id)
    /\ UNCHANGED <<readings, alerts, firstSafeDetectedAt, now, response, streakStart,
                   scenario, evals, alertForm, socket, instances>>

\* GET /status
GetStatus ==
    /\ response' = ServerResponse("status", 200, TRUE, Cardinality(connectedClients))
    /\ UNCHANGED <<readings, alerts, firstSafeDetectedAt, now, streakStart, scenario,
                   evals, alertForm, socketVars>>

\* POST /emit/user-added, /emit/user-deleted, /emit/sensor-update and
\* /emit/alert-triggered: 400 without the payload, otherwise io.emit and the size of
\* connectedClients; 500 when the emission throws.
Emit(payload, throws) ==
    /\ response' = IF ~payload THEN ServerResponse("emit", 400, FALSE, Null)
                   ELSE IF throws THEN ServerResponse("emit", 500, FALSE, Null)
                   ELSE ServerResponse("emit", 200, TRUE, Cardinality(connectedClients))
    /\ UNCHANGED <<readings, alerts, firstSafeDetectedAt, now, streakStart, scenario,
                   evals, alertForm, socketVars>>

-----------------------------------------------------------------------------
(* Client socket module *)

\* The events the dashboard listens for.
EventNames == {"user_added", "sensor_update"}

\* io(url, options) with autoConnect: a socket that is connecting, without
\* listeners of the application.
NewInstance == [state |-> "connecting", listeners |-> {}]

\* socket.connected of the module's socket
Connected == socket # 0 /\ instances[socket].state = "connected"

\* getSocket(): the module variable and the created sockets after the call; throws
\* says that io() throws.
GetSocket(throws) ==
    IF ~Connected /\ ~throws
    THEN [socket |-> Len(instances) + 1, instances |-> Append(instances, NewInstance)]
    ELSE [socket |-> socket, instances |-> instances]

\* A call of getSocket by the application.
CallGetSocket(throws) ==
    /\ (~Connected /\ ~throws) => Len(instances) < MaxInstances
    /\ socket' = GetSocket(throws).socket
    /\ instances' = GetSocket(throws).instances
    /\ UNCHANGED <<readings, alerts, firstSafeDetectedAt, now, response, streakStart,
                   scenario, evals, alertForm, connectedClients, serverSockets>>

\* emitEvent: getSocket, then emit when the socket is connected (the emission
\* changes nothing in the module).
EmitEvent(throws) ==
    /\ (~Connected /\ ~throws) => Len(instances) < MaxInstances
    /\ socket' = GetSocket(throws).socket
    /\ instances' = GetSocket(throws).instances
    /\ UNCHANGED <<readings, alerts, firstSafeDetectedAt, now, response, streakStart,
                   scenario, evals, alertForm, connectedClients, serverSockets>>

\* onEvent: getSocket, then socketInstance.on(eventName, callback); with io()
\* throwing, getSocket returns null and nothing is registered.
OnEvent(eventName, throws) ==
    LET got == GetSocket(throws) IN
    /\ (~Connected /\ ~throws) => Len(instances) < MaxInstances
    /\ socket' = got.socket
    /\ instances' = IF ~Connected /\ throws
                    THEN got.instances
                    ELSE [got.instances EXCEPT ![got.socket].listeners = @ \cup {eventName}]
    /\ UNCHANGED <<readings, alerts, firstSafeDetectedAt, now, response, streakStart,
                   scenario, evals, alertForm, connectedClients, serverSockets>>

\* offEvent: getSocket, then socketInstance.off(eventName, callback)
OffEvent(eventName, throws) ==
    LET got == GetSocket(throws) IN
    /\ (~Connected /\ ~throws) => Len(instances) < MaxInstances
    /\ socket' = got.socket
    /\ instances' = IF ~Connected /\ throws
                    THEN got.instances
                    ELSE [got.instances EXCEPT ![got.socket].listeners = @ \ {eventName}]
    /\ UNCHANGED <<readings, alerts, firstSafeDetectedAt, now, response, streakStart,
                   scenario, evals, alertForm, connectedClients, serverSockets>>

\* disconnectSocket: only a connected socket is disconnected and forgotten.
DisconnectSocket ==
    /\ IF Connected
       THEN /\ instances' = [instances EXCEPT ![socket].state = "closed"]
            /\ socket' = 0
       ELSE UNCHANGED <<socket, instances>>
    /\ UNCHANGED <<readings, alerts, firstSafeDetectedAt, now, response, streakStart,
                   scenario, evals, alertForm, connectedClients, serverSockets>>

\* The "connect" event: a socket io() created reaches the server.
SocketConnects(i) ==
    /\ i \in 1..Len(instances)
    /\ instances[i].state = "connecting"
    /\ instances' = [instances EXCEPT ![i].state = "connected"]
    /\ UNCHANGED <<readings, alerts, firstSafeDetectedAt, now, response, streakStart,
                   scenario, evals, alertForm, connectedClients, serverSockets, socket>>

\* The "disconnect" event of a lost connection: with reconnection enabled the
\* socket goes back to connecting.
SocketDrops(i) ==
    /\ i \in 1..Len(instances)
    /\ instances[i].state = "connected"
    /\ instances' = [instances EXCEPT ![i].state = "connecting"]
    /\ UNCHANGED <<readings, alerts, firstSafeDetectedAt, now, response, streakStart,
                   scenario, evals, alertForm, connectedClients, serverSockets, socket>>

-----------------------------------------------------------------------------
(* Time *)

Tick(points) ==
    /\ \E t \in points : t > now /\ now' = t
    /\ UNCHANGED <<readings, alerts, firstSafeDetectedAt, response, streakStart, scenario,
                   evals, alertForm, socketVars>>

-----------------------------------------------------------------------------
(* Specifications *)

Init ==
    /\ readings = <<>>
    /\ alerts = <<>>
    /\ firstSafeDetectedAt = Null
    /\ now = 0
    /\ response = NoResponse
    /\ streakStart = Null
    /\ scenario = 0
    /\ evals = [p \in Invocations |-> Idle]
    /\ alertForm = AlertFormInit
    /\ connectedClients = {}
    /\ serverSockets = [live |-> {}, used |-> {}]
    /\ socket = 1
    /\ instances = <<NewInstance>>

\* Every storage operation succeeds.
Next ==
    \/ \E body \in ValidBodies : Ingest(body, "none")
    \/ Evaluate("none")
    \/ Tick(TimePoints)

Spec == Init /\ [][Next]_vars

\* Any request body, and any one storage operation of a request may throw.
NextFail ==
    \/ \E body \in Bodies : \E fail \in IngestFailPoints : Ingest(body, fail)
    \/ \E fail \in EvalFailPoints : Evaluate(fail)
    \/ Tick(FailTimePoints)

SpecFail == Init /\ [][NextFail]_vars

\* One reading of any of the distances around the thresholds, then evaluations.
NextClassify ==
    \/ \E body \in ClassifyBodies : Len(readings) = 0 /\ Ingest(body, "none")
    \/ Evaluate("none")

SpecClassify == Init /\ [][NextClassify]_vars

\* Reading POSTs and evaluations, and the two read requests at any moment.
NextRead ==
    \/ \E body \in ValidBodies : Len(readings) < MaxReadReadings /\ Ingest(body, "none")
    \/ Evaluate("none")
    \/ \E fail \in SensorDataFailPoints : GetCurrentSensorData(fail)
    \/ \E since \in SinceValues : \E fail \in BOOLEAN : GetFloodAlerts(since, fail)
    \/ Tick(ReadTimePoints)

SpecRead == Init /\ [][NextRead]_vars

\* The operator's form beside the two POST handlers.
NextNotify ==
    \/ \E body \in ValidBodies : Len(readings) < MaxReadReadings /\ Ingest(body, "none")
    \/ Evaluate("none")
    \/ \E level \in PredefinedLevels : SelectMessage(level)
    \/ HandleSend
    \/ \E ok \in BOOLEAN : SendSettles(ok)
    \/ Tick(FailTimePoints)

SpecNotify == Init /\ [][NextNotify]_vars

\* Invocations of evaluate-alert that overlap each other and reading POSTs: a
\* step runs from one await of the handler to the next.
NextConc ==
    \/ \E body \in ConcBodies : Len(readings) < MaxConcReadings /\ Ingest(body, "none")
    \/ \E p \in Invocations : Begin(p)
    \/ \E p \in Invocations : AfterLatest(p)
    \/ \E p \in Invocations : AfterClear(p)
    \/ \E p \in Invocations : AfterDuplicate(p)
    \/ \E p \in Invocations : AfterInsert(p)
    \/ \E p \in Invocations : AfterActive(p)
    \/ \E p \in Invocations : AfterEvict(p)
    \/ Tick(ConcTimePoints)

SpecConc == Init /\ [][NextConc]_vars

\* One invocation of evaluate-alert that runs step by step, among reading POSTs
\* and evaluations that run between its awaits.
NextClear ==
    \/ \E body \in ValidBodies : Len(readings) < MaxConcReadings /\ Ingest(body, "none")
    \/ Evaluate("none")
    \/ Begin(1)
    \/ AfterLatest(1)
    \/ AfterClear(1)
    \/ AfterDuplicate(1)
    \/ AfterInsert(1)
    \/ AfterActive(1)
    \/ AfterEvict(1)
    \/ Tick(ConcTimePoints)

SpecClear == Init /\ [][NextClear]_vars

\* The socket server: connections, disconnections and its HTTP endpoints.
NextSocketServer ==
    \/ \E id \in SocketIds : Connection(id)
    \/ \E id \in SocketIds : Disconnect(id)
    \/ GetStatus
    \/ \E payload \in BOOLEAN : \E throws \in BOOLEAN : Emit(payload, throws)

SpecSocketServer == Init /\ [][NextSocketServer]_vars

\* The client socket module: the calls of the application and the events of the
\* transport.
NextSocketClient ==
    \/ \E throws \in BOOLEAN : CallGetSocket(throws)
    \/ \E throws \in BOOLEAN : EmitEvent(throws)
    \/ \E eventName \in EventNames : \E throws \in BOOLEAN : OnEvent(eventName, throws)
    \/ \E eventName \in EventNames : \E throws \in BOOLEAN : OffEvent(eventName, throws)
    \/ DisconnectSocket
    \/ \E i \in 1..MaxInstances : SocketConnects(i)
    \/ \E i \in 1..MaxInstances : SocketDrops(i)

SpecSocketClient == Init /\ [][NextSocketClient]_vars

-----------------------------------------------------------------------------
(* Properties *)

\* A step of Evaluate: the only request that answers as "evaluate"; Tick alone
\* moves the clock.
IsEvaluateStep == now' = now /\ response'.op = "evaluate"

\* The reading the last evaluation classified, when it classified one.
Classified(resp) == resp.op = "evaluate" /\ resp.reading # 0

Recorded == {"AlertRecorded", "AlertRecordedEvicted"}

\* No two readings share a reading_time, so that the latest reading is one row.
DistinctReadingTimes ==
    \A i, j \in 1..Len(readings) :
        i # j => readings[i].reading_time # readings[j].reading_time

\* The alerts stored under a key (reading_time, alert_level).
AlertsFor(tbl, rt, level) ==
    {i \in 1..Len(tbl) : tbl[i].reading_time = rt /\ tbl[i].alert_level = level}

\* C1: at most 2 alerts have status active in every reachable state, whatever
\* sequence of reading POSTs and evaluations led to it.
C1_AtMostTwoActive == Cardinality({i \in 1..Len(alerts) : alerts[i].status = "active"}) <= 2

\* C2: an evaluation of an adverse reading that has no alert yet inserts exactly
\* one; the evaluation that follows it at once on the same reading answers
\* DuplicateSkipped and inserts nothing, so that one alert is stored for it.
C2_EvaluateTwiceOneAlert ==
    [][ IsEvaluateStep /\ Classified(response') /\ response'.outcome # "Error"
        /\ readings[response'.reading].distance <= 762000
        =>
        LET rid == response'.reading
            rt == readings[rid].reading_time
            level == response'.level
        IN
        /\ AlertsFor(alerts, rt, level) = {} =>
              /\ response'.outcome \in Recorded
              /\ Len(alerts') = Len(alerts) + 1
        /\ (Classified(response) /\ response.reading = rid /\ response.outcome \in Recorded) =>
              /\ response'.outcome = "DuplicateSkipped"
              /\ alerts' = alerts
        /\ Cardinality(AlertsFor(alerts', rt, level)) = 1
      ]_vars

C2_Witness ==
    /\ Classified(response)
    /\ response.outcome = "DuplicateSkipped"
    /\ Cardinality(AlertsFor(alerts, readings[response.reading].reading_time,
                              response.level)) = 1

\* C3 as stated: whenever an evaluation is repeated on the same latest reading,
\* safe or adverse, the alert store and firstSafeDetectedAt stay as the first
\* call left them.
C3_IdempotentAnyReading ==
    [][ IsEvaluateStep /\ Classified(response) /\ response.success
        /\ response'.reading = response.reading /\ response'.success
        => alerts' = alerts /\ firstSafeDetectedAt' = firstSafeDetectedAt
      ]_vars

\* C3 as amended: whenever an evaluation is repeated on the same adverse latest
\* reading after a call that returned success, the alert store and
\* firstSafeDetectedAt stay as the first call left them, also when the repeated
\* call fails.
C3_IdempotentAdverse ==
    [][ IsEvaluateStep /\ Classified(response) /\ response.success
        /\ response'.reading = response.reading
        /\ readings[response.reading].distance <= 762000
        => alerts' = alerts /\ firstSafeDetectedAt' = firstSafeDetectedAt
      ]_vars

C3_Witness ==
    /\ Classified(response)
    /\ response.outcome = "DuplicateSkipped"
    /\ readings[response.reading].distance <= 762000
    /\ firstSafeDetectedAt = -1
    /\ \E i \in 1..Len(alerts) : alerts[i].status = "active"

\* C4: while firstSafeDetectedAt stands at t0, a safe evaluation before t0 + 300 s
\* answers AwaitingConfirmation and changes no alert, and a safe evaluation at
\* or after t0 + 300 s answers AllAlertsCleared and leaves every alert that was
\* active with status past.
C4_Hysteresis ==
    [][ IsEvaluateStep /\ Classified(response') /\ response'.outcome # "Error"
        /\ readings[response'.reading].distance > 762000
        /\ firstSafeDetectedAt # -1
        =>
        IF now < firstSafeDetectedAt + 300
        THEN /\ response'.outcome = "AwaitingConfirmation"
             /\ alerts' = alerts
             /\ firstSafeDetectedAt' = firstSafeDetectedAt
        ELSE /\ response'.outcome = "AllAlertsCleared"
             /\ Len(alerts') = Len(alerts)
             /\ \A i \in 1..Len(alerts) :
                   /\ alerts'[i].status = "past"
                   /\ alerts'[i] = [alerts[i] EXCEPT !.status = "past"]
      ]_vars

C4_Witness ==
    /\ response.outcome = "AllAlertsCleared"
    /\ Len(alerts) >= 2
    /\ \A i \in 1..Len(alerts) : alerts[i].status = "past"

\* C5: after an adverse evaluation firstSafeDetectedAt is none, and
\* AllAlertsCleared is answered only when at least 300 s have passed since the
\* first safe evaluation that followed the most recent adverse evaluation.
C5_AdverseResetsGracePeriod ==
    /\ (Classified(response) /\ readings[response.reading].distance <= 762000)
          => firstSafeDetectedAt = -1
    /\ (response.op = "evaluate" /\ response.outcome = "AllAlertsCleared")
          => streakStart # -1 /\ now - streakStart >= 300

C5_Witness ==
    /\ response.outcome = "AllAlertsCleared"
    /\ streakStart > 0
    /\ \E i \in 1..Len(alerts) :
          alerts[i].reading_time # -1 /\ alerts[i].created_at < streakStart

\* C6 as stated: in the evaluation sequence safe at t0, adverse at t0 + 100 s,
\* safe at t0 + 150 s, safe at t0 + 450 s, AllAlertsCleared is not answered at
\* t0 + 450 s or earlier (here for readings of distinct reading_time).
C6_NotClearedAt450 ==
    (scenario \in 1..4 /\ response.op = "evaluate" /\ DistinctReadingTimes)
        => response.outcome # "AllAlertsCleared"

\* C6 as amended: in that sequence AllAlertsCleared is not answered at t0 + 150 s
\* or earlier, and it is answered at t0 + 450 s, 300 s after the safe evaluation
\* at t0 + 150 s restarted the timer.
C6_ClearedAt450 ==
    /\ (scenario \in 1..3 /\ response.op = "evaluate") => response.outcome # "AllAlertsCleared"
    /\ (scenario = 4 /\ response.op = "evaluate") => response.outcome = "AllAlertsCleared"

C6_Witness == scenario = 4 /\ response.op = "evaluate" /\ now = 450

\* C7: an alert row is never removed and never changes except in its status, a
\* status only goes from active to past, and a new row is active (or was demoted
\* by the cap eviction of the request that inserted it).
C7_AlertLifecycle ==
    [][ /\ Len(alerts') >= Len(alerts)
        /\ \A i \in 1..Len(alerts) :
              /\ alerts'[i] = [alerts[i] EXCEPT !.status = alerts'[i].status]
              /\ alerts'[i].status = alerts[i].status
                 \/ (alerts[i].status = "active" /\ alerts'[i].status = "past")
        /\ \A i \in (Len(alerts) + 1)..Len(alerts') :
              \/ alerts'[i].status = "active"
              \/ alerts'[i].status = "past" /\ response'.outcome = "AlertRecordedEvicted"
      ]_vars

C7_Witness ==
    /\ \E i \in 1..Len(alerts) : alerts[i].status = "past" /\ alerts[i].reading_time = -1
    /\ \E i \in 1..Len(alerts) : alerts[i].status = "past" /\ alerts[i].reading_time # -1
    /\ \E i \in 1..Len(alerts) : alerts[i].status = "active"

\* C8: when an evaluation inserts an alert while 2 alerts are active, exactly 2
\* alerts are active afterwards, both among the 2 that were active and the new
\* one, the third of them is past, and it is not newer than either survivor.
C8_CapEviction ==
    [][ IsEvaluateStep /\ response'.outcome # "Error"
        /\ Len(alerts') = Len(alerts) + 1
        /\ Cardinality({i \in 1..Len(alerts) : alerts[i].status = "active"}) = 2
        =>
        LET before == {i \in 1..Len(alerts) : alerts[i].status = "active"}
            three == before \cup {Len(alerts')}
            after == {i \in 1..Len(alerts') : alerts'[i].status = "active"}
        IN
        /\ Cardinality(after) = 2
        /\ after \subseteq three
        /\ \A d \in three \ after :
              /\ alerts'[d].status = "past"
              /\ \A k \in after : alerts'[k].created_at >= alerts'[d].created_at
      ]_vars

C8_Witness ==
    /\ response.outcome = "AlertRecordedEvicted"
    /\ Len(alerts) = 3
    /\ Cardinality({i \in 1..Len(alerts) : alerts[i].status = "active"}) = 2
    /\ \E i, j \in 1..Len(alerts) : alerts[i].created_at < alerts[j].created_at

\* The band of a distance under the threshold table of the specification.
Band(d) ==
    IF d > 762000 THEN "Safe"
    ELSE IF d > 609600 THEN "Warning"
    ELSE IF d > 304800 THEN "Danger"
    ELSE "Critical"

\* C9: the evaluation of a reading treats it as safe exactly when its distance
\* is above 76.2 cm, and otherwise records the alert level of the band of its
\* distance: Warning in (60.96, 76.2], Danger in (30.48, 60.96], Critical at or
\* below 30.48.
C9_ClassifierBands ==
    Classified(response) =>
        LET d == readings[response.reading].distance IN
        IF Band(d) = "Safe"
        THEN response.outcome \in {"AwaitingConfirmation", "AllAlertsCleared"}
        ELSE /\ response.outcome \in Recorded \cup {"DuplicateSkipped"}
             /\ response.level = Band(d)

\* C10: an evaluation in which a storage operation fails answers success = false
\* and leaves firstSafeDetectedAt as it was before the evaluation (here for
\* readings of distinct reading_time).
C10_FailureKeepsTimer ==
    [][ IsEvaluateStep /\ response'.outcome = "Error" /\ DistinctReadingTimes
        => response'.success = FALSE /\ firstSafeDetectedAt' = firstSafeDetectedAt
      ]_vars

\* C11: an evaluation that ends with an error outcome has inserted no alert and
\* changed no alert's status.
C11_NoPartialCommit ==
    [][ IsEvaluateStep /\ response'.outcome = "Error" => alerts' = alerts ]_vars

\* A body whose distance is not a number, whose floodLevel is not a number, or
\* whose status is not a string.
WrongTypes(body) ==
    /\ body.json
    /\ \/ body.distance.type # "number"
       \/ body.floodLevel.type # "number"
       \/ body.status.type # "string"

AdverseTags ==
    { "WARNING", "Warning", "warning", "DANGER", "Danger", "danger",
      "CRITICAL", "Critical", "critical" }

\* The level a tag names, in the lower case the ingest handler stores.
TagLevel(tag) ==
    IF tag \in {"WARNING", "Warning", "warning"} THEN "warning"
    ELSE IF tag \in {"DANGER", "Danger", "danger"} THEN "danger"
    ELSE "critical"

\* C14: a successful POST /readings appends exactly one reading, holding the
\* body's values, and appends exactly one alert, active and of the tag's level,
\* if the tag is WARNING, DANGER or CRITICAL in any case, and no alert
\* otherwise, whatever the distance.
C14_IngestStoresReadingAndTagAlert ==
    [][ \A body \in ClassifyBodies :
            (Ingest(body, "none") /\ response'.http = 200)
            => /\ Len(readings') = Len(readings) + 1
               /\ SubSeq(readings', 1, Len(readings)) = readings
               /\ readings'[Len(readings')].distance = body.distance.val
               /\ readings'[Len(readings')].status = body.status.val
               /\ IF body.status.val \in AdverseTags
                  THEN /\ Len(alerts') = Len(alerts) + 1
                       /\ SubSeq(alerts', 1, Len(alerts)) = alerts
                       /\ alerts'[Len(alerts')].status = "active"
                       /\ alerts'[Len(alerts')].alert_level = TagLevel(body.status.val)
                  ELSE alerts' = alerts
      ]_vars

\* A safe distance stored with an adverse tag has raised an alert of the tag's level.
C14_Witness ==
    /\ response.op = "ingest"
    /\ response.http = 200
    /\ Len(readings) = 1
    /\ readings[1].distance > 762000
    /\ readings[1].status = "critical"
    /\ Len(alerts) = 1
    /\ alerts[1].alert_level = "critical"

\* An invocation p of evaluate-alert takes a step.
StepOf(p) == evals'[p] # evals[p]

\* C12: two overlapping evaluation invocations that read the same adverse latest
\* reading never both insert an alert for it: no interleaving leaves two alerts
\* with the same (reading_time, alert_level).
C12_NoDuplicateUnderOverlap ==
    DistinctReadingTimes
    => \A i, j \in 1..Len(alerts) :
           (i # j /\ alerts[i].reading_time # Null)
           => ~ (/\ alerts[i].reading_time = alerts[j].reading_time
                 /\ alerts[i].alert_level = alerts[j].alert_level)

\* C15: a failure of the notification send is caught by the sender, reported as
\* a failure message, and changes no alert in the alert store; alert writes never
\* wait on or depend on a notification (a step that writes an alert leaves the
\* form as it is, whether a send is pending or not).
C15_SendFailureIsolated ==
    [][ /\ SendSettles(FALSE)
           => /\ alertForm'.error = "Failed to send alert."
              /\ alertForm'.success = ""
              /\ ~alertForm'.sending
              /\ alerts' = alerts
              /\ readings' = readings
              /\ firstSafeDetectedAt' = firstSafeDetectedAt
        /\ alerts' # alerts => alertForm' = alertForm ]_vars

\* The send failed and was reported, with alerts stored.
C15_Witness ==
    /\ alertForm.error = "Failed to send alert."
    /\ ~alertForm.sending
    /\ Len(alerts) >= 1

\* An alert is written while a send is pending.
C15_WitnessPending ==
    /\ alertForm.sending
    /\ \E i \in 1..Len(alerts) : alerts[i].created_at > alertForm.posted.time

\* C16: GET /alerts returns every stored alert ordered by created_at descending;
\* with a since parameter it returns exactly the alerts whose created_at is
\* strictly greater than since, in the same order.
C16_AlertsListing ==
    [][ \A since \in SinceValues :
            (response'.op = "flood_alerts" /\ GetFloodAlerts(since, FALSE))
            => LET rows == response'.data IN
               /\ response'.success
               /\ \A m, n \in 1..Len(rows) : m # n => rows[m] # rows[n]
               /\ {rows[m] : m \in 1..Len(rows)}
                      = {i \in 1..Len(alerts) : since = Null \/ alerts[i].created_at > since}
               /\ \A m, n \in 1..Len(rows) :
                      m < n => alerts[rows[m]].created_at >= alerts[rows[n]].created_at ]_vars

\* A listing with since = 0: it returns the alerts created later and leaves out
\* the alerts created at 0.
C16_Witness ==
    /\ response.op = "flood_alerts"
    /\ response.success
    /\ Len(response.data) >= 2
    /\ \A m \in 1..Len(response.data) : alerts[response.data[m]].created_at > 0
    /\ \E i \in 1..Len(alerts) :
           /\ \A m \in 1..Len(response.data) : response.data[m] # i
           /\ alerts[i].created_at = 0

\* C17: GET /readings/latest returns success = true in both cases: the reading
\* with the greatest reading_time when at least one reading is stored, and the
\* sentinel record with status "No Data" and null distance, flood_level and
\* reading_time when the store is empty.
C17_LatestReading ==
    [][ GetCurrentSensorData("none")
        => /\ response'.success
           /\ response'.http = 200
           /\ IF Len(readings) = 0
              THEN /\ response'.data.status = "No Data"
                   /\ response'.data.distance = Null
                   /\ response'.data.flood_level = Null
                   /\ response'.data.reading_time = Null
              ELSE \E i \in 1..Len(readings) :
                     /\ \A j \in 1..Len(readings) :
                            readings[i].reading_time >= readings[j].reading_time
                     /\ response'.data.reading_time = readings[i].reading_time
                     /\ response'.data.status = readings[i].status
                     /\ response'.data.distance = (2 * readings[i].distance + CmPerFoot) \div (2 * CmPerFoot)
                     /\ response'.data.flood_level
                            = (2 * readings[i].flood_level + CmPerFoot) \div (2 * CmPerFoot) ]_vars

\* The latest of several readings is returned, and it is not the first one stored.
C17_Witness ==
    /\ response.op = "current-sensor-data"
    /\ response.success
    /\ Len(readings) >= 2
    /\ response.data.reading_time > readings[1].reading_time
    /\ response.data.status # readings[1].status

\* The sentinel is returned from the empty store.
C17_WitnessNoData ==
    /\ response.op = "current-sensor-data"
    /\ response.success
    /\ Len(readings) = 0
    /\ response.data.status = "No Data"

\* C18: an evaluation never answers AllAlertsCleared when an adverse reading
\* was stored after firstSafeDetectedAt was set (here for readings of distinct
\* reading_time).
C18_NoClearAfterAdverseStored ==
    [][ IsEvaluateStep /\ response'.outcome = "AllAlertsCleared" /\ DistinctReadingTimes
        => ~ \E i \in 1..Len(readings) :
                /\ readings[i].distance <= 762000
                /\ readings[i].reading_time > firstSafeDetectedAt
      ]_vars

\* C19: two overlapping evaluation invocations whose latest reading is safe never
\* both observe firstSafeDetectedAt unset and both set it: at most one of them
\* starts the grace-period timer.
C19_OneTimerStart ==
    DistinctReadingTimes
    => \A p, q \in Invocations :
           (p # q /\ (q \in evals[p].overlap \/ p \in evals[q].overlap))
           => ~ (evals[p].startedTimer /\ evals[q].startedTimer)

\* The step writes the alert store or clears firstSafeDetectedAt.
Acts ==
    \/ Len(alerts') > Len(alerts)
    \/ \E i \in 1..Len(alerts) : alerts[i].status = "active" /\ alerts'[i].status = "past"
    \/ firstSafeDetectedAt # Null /\ firstSafeDetectedAt' = Null

\* C20: whenever an evaluation inserts an alert, clears firstSafeDetectedAt, or
\* marks alerts past, the reading it classified is the stored reading with the
\* greatest reading_time at that moment, also when a reading POST interleaves
\* with the evaluation.
C20_ActsOnLatestReading ==
    [][ \A p \in Invocations :
            (StepOf(p) /\ Acts /\ DistinctReadingTimes)
            => \A j \in 1..Len(readings) :
                   readings[evals[p].rid].reading_time >= readings[j].reading_time ]_vars

\* C21: the alert level recorded by the engine equals the band of the reading's
\* stored distance under the threshold table, for every distance, including the
\* distances within 0.005 above a threshold.
C21_LevelIsBandOfStoredDistance ==
    \A i \in 1..Len(alerts) :
        alerts[i].reading_time # Null => alerts[i].alert_level = Band(alerts[i].distance)

\* The fixed message template of the specification for a level.
Template(level) ==
    CASE level = "Warning" -> "Warning: Rising Water Level."
      [] level = "Danger" -> "Danger: High Water Level!"
      [] level = "Critical" -> "Critical Flood Level! Immediate action required."
      [] OTHER -> ""

\* C22: the message of every alert the engine inserts is the fixed template for
\* its level.
C22_EngineMessageIsTemplate ==
    [][ IsEvaluateStep /\ Len(alerts') > Len(alerts)
        => alerts'[Len(alerts')].message = Template(alerts'[Len(alerts')].alert_level)
      ]_vars

\* C23: an evaluation whose latest reading is safe never inserts an alert, and
\* while the elapsed time since firstSafeDetectedAt is below 300 s (or the timer
\* was just started) it changes no alert's status.
C23_SafeEvaluationFrame ==
    [][ (/\ IsEvaluateStep
         /\ Classified(response')
         /\ readings[response'.reading].distance > 762000)
        => /\ Len(alerts') = Len(alerts)
           /\ (firstSafeDetectedAt = Null \/ now - firstSafeDetectedAt < 300)
                  => alerts' = alerts ]_vars

\* A safe evaluation 299 s after the timer started, with an alert still active.
C23_Witness ==
    /\ response.op = "evaluate"
    /\ response.outcome = "AwaitingConfirmation"
    /\ response.remaining = 1
    /\ \E i \in 1..Len(alerts) : alerts[i].status = "active"

\* C24: when no reading is stored, an evaluation returns the no-data outcome,
\* creates no alert, changes no alert's status, and leaves firstSafeDetectedAt
\* unchanged.
C24_NoDataFrame ==
    [][ IsEvaluateStep /\ Len(readings) = 0
        => /\ response'.outcome = "NoData"
           /\ response'.success = FALSE
           /\ alerts' = alerts
           /\ firstSafeDetectedAt' = firstSafeDetectedAt ]_vars

\* The no-data outcome was returned from the empty store, after time has passed.
C24_Witness ==
    /\ response.op = "evaluate"
    /\ response.outcome = "NoData"
    /\ Len(readings) = 0
    /\ now > 0
    /\ firstSafeDetectedAt = Null

\* The reading_time of the reading an alert was raised for: the engine stores
\* it in the alert, the reading POST creates the alert together with the reading.
RaisedFor(a) == IF a.reading_time # Null THEN a.reading_time ELSE a.created_at

\* C25: the safe-confirmation bulk update never demotes an alert raised for a
\* reading newer than the safe reading the clearing evaluation classified.
C25_ClearSparesNewerAlerts ==
    [][ \A p \in Invocations :
            (StepOf(p) /\ evals'[p].pc = "afterClear" /\ DistinctReadingTimes)
            => \A i \in 1..Len(alerts) :
                   (/\ alerts[i].status = "active"
                    /\ RaisedFor(alerts[i]) > readings[evals[p].rid].reading_time)
                   => alerts'[i].status = "active" ]_vars

\* C26: for any single stored adverse reading, at most one alert is created
\* across both insertion paths: after the reading POST has inserted an alert for
\* the reading, an evaluation of that same reading is skipped as a duplicate.
C26_OneAlertAcrossPaths ==
    [][ (/\ IsEvaluateStep
         /\ Classified(response')
         /\ DistinctReadingTimes
         /\ readings[response'.reading].distance <= 762000
         /\ \E i \in 1..Len(alerts) :
                /\ alerts[i].reading_time = Null
                /\ alerts[i].created_at = readings[response'.reading].reading_time)
        => /\ response'.outcome = "DuplicateSkipped"
           /\ Len(alerts') = Len(alerts) ]_vars

\* C27: the reading POST is all-or-nothing on storage failure: whenever it
\* responds with HTTP 500, neither the reading nor an alert for it has been
\* stored.
C27_IngestAllOrNothing ==
    [][ \A body \in Bodies : \A fail \in IngestFailPoints :
            (Ingest(body, fail) /\ response'.http = 500)
            => readings' = readings /\ alerts' = alerts ]_vars

\* The outcomes of an evaluation.
Outcomes ==
    {"NoData", "AwaitingConfirmation", "AllAlertsCleared", "NoAlert", "DuplicateSkipped",
     "AlertRecorded", "AlertRecordedEvicted", "Error"}

\* C28: every evaluation invocation ends by returning a response with a success
\* flag and a message, whether a storage operation fails, the store is empty or
\* not; the flag is false exactly for the no-data and the error outcome.
C28_EvaluateAlwaysResponds ==
    [][ \A fail \in EvalFailPoints :
            Evaluate(fail)
            => /\ response'.op = "evaluate"
               /\ response'.success \in BOOLEAN
               /\ response'.outcome \in Outcomes
               /\ response'.success <=> response'.outcome \notin {"NoData", "Error"}
               /\ fail = "latest" => response'.outcome = "Error" ]_vars

\* An evaluation in which a storage operation failed has answered, with readings
\* and alerts stored.
C28_Witness ==
    /\ response.op = "evaluate"
    /\ response.outcome = "Error"
    /\ ~response.success
    /\ Len(readings) >= 1
    /\ Len(alerts) >= 1

\* C29: connectedClients holds exactly the ids of the sockets that are connected,
\* and the count GET /status and the emit endpoints report is their number.
C29_ConnectedClientsAreTheLiveSockets ==
    [][/\ connectedClients' = serverSockets'.live
       /\ (response' # response /\ response'.op \in {"status", "emit"}
           /\ response'.http = 200)
          => response'.data = Cardinality(serverSockets.live)]_vars

\* A status answer that counts the connected sockets after another has left.
C29_Witness ==
    /\ response.op = "status"
    /\ response.data = 2
    /\ Cardinality(serverSockets.live) = 2
    /\ serverSockets.used # serverSockets.live

\* The sockets of the client module that are connected or connecting.
LiveInstances == {i \in 1..Len(instances) : instances[i].state # "closed"}

\* C30: the client module keeps a single socket: at most one socket it created is
\* connected or connecting at any time.
C30_SingleLiveSocket == Cardinality(LiveInstances) <= 1

====
